---------------------------- MODULE Spec2Model ----------------------------
(***************************************************************************)
(* A model of the NR scanner (src/app.py): the narrow-range detector       *)
(* compute_nr_flags, the breakout tracker simulate_breakouts_since_last_nr,*)
(* the candle adapters, the CoinGecko rate limiter and the scan loop of    *)
(* main.                                                                   *)
(*                                                                         *)
(* Python lists are 0-indexed, TLA+ sequences 1-indexed: position i of a   *)
(* sequence here is Python index i - 1.  Prices are integers; the setup    *)
(* midpoint (rh + rl) / 2.0 is never divided: a close c is compared with   *)
(* it as 2 * c against rh + rl.                                            *)
(***************************************************************************)
EXTENDS Integers, Sequences, FiniteSets, TLC

VARIABLES
    closed,          \* the closed-candle series under evaluation
    nr4, nr7, nr10,  \* the flag lists returned by compute_nr_flags
    dpc,             \* detector driver: "idle" | "flagged"
    \* simulate_breakouts_since_last_nr, one loop iteration per step
    tpc,             \* "build" | "scan" | "done"
    setup_idx,       \* position of the setup candle, 0 for Python's -1
    rh, rl,          \* high and low of the setup candle
    trk,             \* up_check, down_check, up_count, down_count,
                     \* breakout_state, breakout_tag
    j,               \* the forward loop's index
    ret,             \* the tuple returned
    events,          \* history: the breakout events fired, in order
    nfol,            \* history: candles appended after the start series
    \* the candle adapters
    now,             \* the wall clock, in slots of a UTC day
    raw,             \* the payload the upstream returned
    rows,            \* the series the adapter returned (None as <<>>)
    asrc,            \* which adapter returned rows: "ccxt" | "cg" | "none"
                     \* | "again" (the daily aggregation, a second time)
    fetched_at,      \* history: the clock when rows was returned
    \* the CoinGecko client
    cg_clock,        \* time.time(), in units of 0.4 s
    cg_last,         \* _CG_LAST_CALL
    cgpc,            \* cg_get: "idle" | "limit" | "request"
    attempt,         \* the retry loop's counter
    max_retries,     \* the call's max_retries
    last_exc,        \* last_exc
    cg_out,          \* how the last cg_get call ended
    cg_gap,          \* history of the last _cg_rate_limit call: the value
                     \* it wrote minus the value it replaced, and its
                     \* 'wait'; None before the first call
    cg_hist,         \* history of the cg_get call in progress or just
                     \* ended: the outcome of each attempt and the
                     \* argument of the time.sleep that followed it, 0
                     \* when none did
    \* main: the scan loop (its 'closed' is the variable closed above)
    opts,            \* the scan options, COINGECKO_DEMO_API_KEY being set,
                     \* and provider_chain
    scan_list,       \* scan_list
    world,           \* what the upstreams hold during the scan: the
                     \* providers ccxt lacks, each provider's markets
                     \* and each coin's candles
    item_no,         \* the loop's i: the position of the item in progress
    spc,             \* where main is: "next" (the loop's header),
                     \* "chain", "after" (line 721), "calc" (line 745),
                     \* "done", or "aborted" by an exception nothing
                     \* caught
    ex_pos,          \* the position of ex_id in provider_chain
    coin_id,         \* item["coingecko_id"]
    exchange_used, pair_used, data_source, last_reason,
    results, skipped, errors,
    tried,           \* history: the providers tried for this item, each
                     \* with whether it returned a series
    iter             \* history of this item: the lengths of results,
                     \* skipped and errors when it began, whether every
                     \* provider so far had no instrument for it, what
                     \* the succeeding provider returned, and whether the
                     \* flag computation raised

detVars == <<closed, nr4, nr7, nr10, dpc>>

trkVars == <<tpc, setup_idx, rh, rl, trk, j, ret, events, nfol>>

adVars == <<now, raw, rows, asrc, fetched_at>>

cgVars == <<cg_clock, cg_last, cgpc, attempt, max_retries, last_exc, cg_out,
            cg_gap, cg_hist>>

scanVars == <<opts, scan_list, world, item_no, spc, ex_pos, coin_id,
              exchange_used, pair_used, data_source, last_reason, results,
              skipped, errors, tried, iter>>

vars == <<detVars, trkVars, adVars, cgVars, scanVars>>

\* What the detector and tracker drivers leave alone
notTrk == <<adVars, cgVars, scanVars>>

notDet == <<trkVars, notTrk>>

----------------------------------------------------------------------------
(* Helpers *)

Max(a, b) == IF a >= b THEN a ELSE b

Min(a, b) == IF a <= b THEN a ELSE b

\* Python's min() over a non-empty list
RECURSIVE MinOf(_)
MinOf(s) ==
    IF Len(s) = 1 THEN s[1] ELSE Min(s[1], MinOf(Tail(s)))

\* Python's None, and a present value, for an optional number
None == <<>>

Some(x) == <<x>>

\* A row as the adapters build it: range = float(h - l)
Candle(t, h, l, c) ==
    [time |-> t, high |-> h, low |-> l, close |-> c, range |-> h - l]

----------------------------------------------------------------------------
(* compute_nr_flags *)

\* The window sizes of NR4, NR7 and NR10
W4 == 4

W7 == 7

W10 == 10

\* rngs[max(0, i - (w-1)) : i + 1]
Window(rngs, i, w) == SubSeq(rngs, Max(1, i - (w - 1)), i)

\* min(win) if len(win) >= w else None
Lst(win, w) == IF Len(win) >= w THEN Some(MinOf(win)) ELSE None

\* is10 = (lst10 is not None and rngs[i] == lst10)
Is10(rngs, i) ==
    LET lst10 == Lst(Window(rngs, i, W10), W10)
    IN  lst10 # None /\ rngs[i] = lst10[1]

\* the 'not is10' suppression left out
Is7NoSuppress(rngs, i) ==
    LET lst7 == Lst(Window(rngs, i, W7), W7)
    IN  lst7 # None /\ rngs[i] = lst7[1]

\* is7 = (lst7 is not None and rngs[i] == lst7 and (not is10))
Is7(rngs, i) ==
    LET lst7 == Lst(Window(rngs, i, W7), W7)
    IN  lst7 # None /\ rngs[i] = lst7[1] /\ ~Is10(rngs, i)

\* a strict comparison in place of the equality with the window minimum:
\* ties with an earlier range no longer count
Is4NoTie(rngs, i) ==
    LET w4 == Window(rngs, i, W4)
    IN  /\ Len(w4) >= W4
        /\ \A k \in 1..(Len(w4) - 1) : rngs[i] < w4[k]
        /\ ~Is7(rngs, i)
        /\ ~Is10(rngs, i)

\* is4 = (lst4 is not None and rngs[i] == lst4 and (not is7) and (not is10))
Is4(rngs, i) ==
    LET lst4 == Lst(Window(rngs, i, W4), W4)
    IN  lst4 # None /\ rngs[i] = lst4[1] /\ ~Is7(rngs, i) /\ ~Is10(rngs, i)

\* returns nr4, nr7, nr10
compute_nr_flags(cl) ==
    LET n    == Len(cl)
        rngs == [i \in 1..n |-> cl[i].range]
    IN  [nr4  |-> [i \in 1..n |-> Is4(rngs, i)],
         nr7  |-> [i \in 1..n |-> Is7(rngs, i)],
         nr10 |-> [i \in 1..n |-> Is10(rngs, i)]]

----------------------------------------------------------------------------
(* simulate_breakouts_since_last_nr *)

\* The fewest candles simulate_breakouts_since_last_nr evaluates
MinSeries == 12

\* breakout_tag: "-" or f"{direction}#{count}"
NoTag == <<"-", 0>>

Tag(dir, n) == <<dir, n>>

\* "", "", "-", "-", 0, 0, None, None
NoSetup ==
    [setup_time |-> "", setup_type |-> "", breakout_state |-> "-",
     breakout_tag |-> NoTag, up_count |-> 0, down_count |-> 0,
     rh |-> None, rl |-> None]

\* The backward search for the most recent candle with a flag set; 0 stands
\* for Python's -1
RECURSIVE FindSetup(_, _)
FindSetup(f, i) ==
    IF i = 0 THEN 0
    ELSE IF f.nr10[i] \/ f.nr7[i] \/ f.nr4[i] THEN i
    ELSE FindSetup(f, i - 1)

\* "NR10" if nr10_flags[i] else ("NR7" if nr7_flags[i] else "NR4")
SetupType(f, i) ==
    IF f.nr10[i] THEN "NR10" ELSE IF f.nr7[i] THEN "NR7" ELSE "NR4"

\* The loop's variables before the first iteration
TrackStart ==
    [up_check |-> TRUE, down_check |-> TRUE, up_count |-> 0,
     down_count |-> 0, breakout_state |-> "-", breakout_tag |-> NoTag]

\* if cur_close > mid and down_check is False: down_check = True
DownRearm(st, cur_close, h, l) ==
    IF 2 * cur_close > h + l /\ ~st.down_check
    THEN [st EXCEPT !.down_check = TRUE]
    ELSE st

\* if (prev_close >= rl) and (cur_close < rl) and down_check: ...
DownFire(st, prev_close, cur_close, l) ==
    IF prev_close >= l /\ cur_close < l /\ st.down_check
    THEN [st EXCEPT !.down_count = st.down_count + 1,
                    !.down_check = FALSE,
                    !.breakout_state = "DOWN",
                    !.breakout_tag = Tag("DOWN", st.down_count + 1)]
    ELSE st

\* the UP side re-armed only by a close below the setup low
UpRearmBelowLow(st, cur_close, h, l) ==
    IF cur_close < l /\ ~st.up_check
    THEN [st EXCEPT !.up_check = TRUE]
    ELSE st

\* if cur_close < mid and up_check is False: up_check = True
UpRearm(st, cur_close, h, l) ==
    IF 2 * cur_close < h + l /\ ~st.up_check
    THEN [st EXCEPT !.up_check = TRUE]
    ELSE st

\* the UP side never disarmed when it fires
UpFireStaysArmed(st, prev_close, cur_close, h) ==
    IF prev_close <= h /\ cur_close > h /\ st.up_check
    THEN [st EXCEPT !.up_count = st.up_count + 1,
                    !.breakout_state = "UP",
                    !.breakout_tag = Tag("UP", st.up_count + 1)]
    ELSE st

\* if (prev_close <= rh) and (cur_close > rh) and up_check: ...
UpFire(st, prev_close, cur_close, h) ==
    IF prev_close <= h /\ cur_close > h /\ st.up_check
    THEN [st EXCEPT !.up_count = st.up_count + 1,
                    !.up_check = FALSE,
                    !.breakout_state = "UP",
                    !.breakout_tag = Tag("UP", st.up_count + 1)]
    ELSE st

\* One iteration of the forward loop, its four tests in the code's order
TrackStep(st, prev_close, cur_close, h, l) ==
    LET s1 == DownRearm(st, cur_close, h, l)
        s2 == DownFire(s1, prev_close, cur_close, l)
        s3 == UpRearm(s2, cur_close, h, l)
    IN  UpFire(s3, prev_close, cur_close, h)

\* for j in range(setup_idx + 1, len(closed)), from position k on
RECURSIVE TrackFrom(_, _, _, _, _)
TrackFrom(cl, st, k, h, l) ==
    IF k > Len(cl) THEN st
    ELSE TrackFrom(cl, TrackStep(st, cl[k - 1].close, cl[k].close, h, l),
                   k + 1, h, l)

\* The tuple returned once a setup is found and the loop is over
Returned(cl, f, idx, st) ==
    [setup_time |-> cl[idx].time, setup_type |-> SetupType(f, idx),
     breakout_state |-> st.breakout_state, breakout_tag |-> st.breakout_tag,
     up_count |-> st.up_count, down_count |-> st.down_count,
     rh |-> Some(cl[idx].high), rl |-> Some(cl[idx].low)]

\* The function as a whole, as main calls it
simulate_breakouts_since_last_nr(cl) ==
    IF Len(cl) < MinSeries THEN NoSetup
    ELSE LET f   == compute_nr_flags(cl)
             idx == FindSetup(f, Len(cl))
         IN  IF idx = 0 THEN NoSetup
             ELSE Returned(cl, f, idx,
                           TrackFrom(cl, TrackStart, idx + 1,
                                     cl[idx].high, cl[idx].low))

----------------------------------------------------------------------------
(* fetch_ohlcv_ccxt and cg_ohlc_utc_daily_cached *)

\* Slots in a UTC day: timestamps are slot numbers, and
\* datetime.fromtimestamp(ts / 1000, tz=utc).date() is the slot's day
DayLen == 2

\* the day of the timestamp in a zone one slot ahead of UTC
DayOfLocal(ts) == (ts + 1) \div DayLen

DayOf(ts) == ts \div DayLen

\* The fewest bars fetch_ohlcv_ccxt accepts from the exchange
MinBars == 15

\* The fewest closed rows an adapter's series must have
MinRows == 12

\* the exchange's last bar kept
KeepLastBar(ohlcv) == ohlcv

\* ohlcv = ohlcv[:-1]
DropLastBar(ohlcv) == SubSeq(ohlcv, 1, Len(ohlcv) - 1)

\* None (as <<>>), or one row per bar but the last
fetch_ohlcv_ccxt(ohlcv) ==
    IF Len(ohlcv) = 0 \/ Len(ohlcv) < MinBars THEN None
    ELSE LET cut == DropLastBar(ohlcv)
         IN  IF Len(cut) < MinRows THEN None
             ELSE [i \in 1..Len(cut) |->
                     Candle(cut[i].ts, cut[i].high, cut[i].low, cut[i].close)]

\* day = {}
EmptyDays == [k \in {} |-> k]

\* the same with 'if ts >= day[key]["last_ts"]'
DayPutLastWins(day, t) ==
    LET key == DayOf(t.ts)
    IN  IF key \notin DOMAIN day
        THEN day @@ (key :> [high |-> t.high, low |-> t.low,
                             close |-> t.close, last_ts |-> t.ts])
        ELSE LET d  == day[key]
                 hl == [d EXCEPT !.high = Max(d.high, t.high),
                                 !.low = Min(d.low, t.low)]
             IN  [day EXCEPT ![key] =
                     IF t.ts >= d.last_ts
                     THEN [hl EXCEPT !.close = t.close, !.last_ts = t.ts]
                     ELSE hl]

\* The body of 'for ts, o, h, l, c in raw': the tick merged into its day
DayPut(day, t) ==
    LET key == DayOf(t.ts)
    IN  IF key \notin DOMAIN day
        THEN day @@ (key :> [high |-> t.high, low |-> t.low,
                             close |-> t.close, last_ts |-> t.ts])
        ELSE LET d  == day[key]
                 hl == [d EXCEPT !.high = Max(d.high, t.high),
                                 !.low = Min(d.low, t.low)]
             IN  [day EXCEPT ![key] =
                     IF t.ts > d.last_ts
                     THEN [hl EXCEPT !.close = t.close, !.last_ts = t.ts]
                     ELSE hl]

RECURSIVE DayFold(_, _)
DayFold(ticks, day) ==
    IF ticks = <<>> THEN day
    ELSE DayFold(Tail(ticks), DayPut(day, Head(ticks)))

\* sorted(...) of a set of day keys
RECURSIVE SortedKeys(_)
SortedKeys(S) ==
    IF S = {} THEN <<>>
    ELSE LET m == CHOOSE x \in S : \A y \in S : x <= y
         IN  <<m>> \o SortedKeys(S \ {m})

\* keys = sorted(k for k in day.keys() if k != today_utc)
ClosedDays(day, today) == SortedKeys({k \in DOMAIN day : k # today})

\* The aggregation of cg_ohlc_utc_daily_cached, 'clock' being the time of
\* datetime.now(timezone.utc)
cg_ohlc_utc_daily(ticks, clock) ==
    LET day  == DayFold(ticks, EmptyDays)
        keys == ClosedDays(day, DayOf(clock))
    IN  [i \in 1..Len(keys) |->
            Candle(keys[i], day[keys[i]].high, day[keys[i]].low,
                   day[keys[i]].close)]

----------------------------------------------------------------------------
(* _cg_rate_limit and cg_get.  Time is counted in units of 0.4 s.          *)

\* min_interval_sec = 1.2
MinInterval == 3

\* backoff = 2.0
Backoff == 5

\* the interval forgotten: wait = _CG_LAST_CALL - now
WaitNoInterval(last, m, t) == last - t

\* wait = (_CG_LAST_CALL + min_interval_sec) - now
Wait(last, m, t) == (last + m) - t

\* The clock when _cg_rate_limit stores it: after time.sleep(wait), which
\* may oversleep by 'over', if wait > 0
RateLimitedAt(last, m, t, over) ==
    IF Wait(last, m, t) > 0 THEN t + Wait(last, m, t) + over ELSE t

\* No attempt of the call made yet
NoAttempt == [outcomes |-> <<>>, sleeps |-> <<>>]

\* cg_hist after an attempt that ended as 'outcome' and then called
\* time.sleep(slept), slept = 0 standing for no call
Logged(outcome, slept) ==
    [outcomes |-> Append(cg_hist.outcomes, outcome),
     sleeps   |-> Append(cg_hist.sleeps, slept)]

\* the attempt's number forgotten: time.sleep(backoff)
BackoffSleepFlat(n) == Backoff

\* time.sleep(backoff * attempt)
BackoffSleep(n) == Backoff * n

\* raise last_exc if last_exc else RuntimeError("CoinGecko Fehler ...")
Exhausted(exc) == IF exc # "none" THEN exc ELSE "RuntimeError"

----------------------------------------------------------------------------
(* The ccxt provider layer and the scan loop of main *)

PROVIDER_CHAIN == <<"bitget", "bingx", "bybit", "mexc", "blofin", "okx">>

\* str.upper() and str.lower(), on the strings the model uses
Upper(s) ==
    CASE s = "btc" -> "BTC"
      [] s = "eth" -> "ETH"
      [] s = "sol" -> "SOL"
      [] OTHER -> s

Lower(s) ==
    CASE s = "BYBIT" -> "bybit"
      [] s = "OKX" -> "okx"
      [] s = "Timed out" -> "timed out"
      [] OTHER -> s

\* provider_mode is <<"Auto">> or <<"Nur ", P>>, P a provider's name in
\* upper case
ProviderChain(provider_mode) ==
    IF provider_mode[1] = "Nur " THEN <<Lower(provider_mode[2])>>
    ELSE PROVIDER_CHAIN

\* A symbol is the sequence of its parts, e.g. <<"BTC", "/USDT", ":USDT">>
InSym(part, sym) == \E k \in 1..Len(sym) : sym[k] = part

is_usdt_linear_perp_market(m) ==
    IF ~m.active THEN FALSE
    ELSE IF m.quote # "USDT" THEN FALSE
    ELSE IF ~(m.swap \/ m.future \/ m.contract
              \/ m.type \in {"swap", "future"}) THEN FALSE
    ELSE TRUE

\* score(sym, m)
Score(sym, m) ==
    (IF InSym(":USDT", sym) THEN 3 ELSE 0)
    + (IF \E k \in 1..Len(sym) : Upper(sym[k]) = "-SWAP" THEN 1 ELSE 0)
    + (IF m.swap THEN 2 ELSE 0)
    + (IF m.linear THEN 1 ELSE 0)

\* 'markets' is the dict of load_markets_cached, in its order: a sequence
\* of [sym, m].  The stable descending sort puts first the earliest
\* candidate of the highest score.  None is <<>>.
find_ccxt_futures_symbol(markets, base_sym) ==
    LET Cand(e) == /\ Upper(e.m.base) = Upper(base_sym)
                   /\ is_usdt_linear_perp_market(e.m)
        candidates == SelectSeq(markets, Cand)
        n == Len(candidates)
    IN  IF n = 0 THEN None
        ELSE LET first == CHOOSE a \in 1..n :
                     /\ \A b \in 1..n :
                          Score(candidates[b].sym, candidates[b].m)
                            <= Score(candidates[a].sym, candidates[a].m)
                     /\ \A b \in 1..(a - 1) :
                          Score(candidates[b].sym, candidates[b].m)
                            < Score(candidates[a].sym, candidates[a].m)
             IN  candidates[first].sym

\* The reason the except clause of the futures chain records; msg is the
\* set of the fragments str(e) contains
ReasonOf(msg) ==
    IF "451" \in msg THEN "blocked (451)"
    ELSE IF "429" \in msg THEN "rate limit (429)"
    ELSE IF "timed out" \in {Lower(t) : t \in msg} THEN "timeout"
    ELSE "error"

\* only the three known kinds of exception caught
ProviderExceptKnownOnly(ex_id, msg) ==
    [spc |-> IF ReasonOf(msg) = "error" THEN "aborted" ELSE "chain",
     last_reason |-> <<ex_id, ReasonOf(msg)>>]

\* except Exception as e: last_reason = ...; continue
ProviderExcept(ex_id, msg) ==
    [spc |-> "chain", last_reason |-> <<ex_id, ReasonOf(msg)>>]

\* the 'break' after a provider's series left out
AfterAttemptNoBreak(got_rows) == "chain"

\* 'break' once a provider returned a series, 'continue' otherwise
AfterAttempt(got_rows) == IF got_rows THEN "calc" ELSE "chain"

\* the entry without the symbol: f"{last_reason or 'no data'}"
SkippedEntryNoSymbol(base, reason) ==
    IF reason # None THEN reason ELSE <<"no data">>

\* f"{base}: {last_reason or 'no data'}"
SkippedEntry(base, reason) ==
    <<base>> \o (IF reason # None THEN reason ELSE <<"no data">>)

\* str(e)[:160]
MsgCut == 160

\* the message whole: str(e)
CutNothing(msg) == msg

\* A message is a sequence of characters; str(e)[:160]
Cut(msg) == SubSeq(msg, 1, Min(MsgCut, Len(msg)))

\* f"{base}: UTC error - {type(e).__name__} - {str(e)[:160]}"
UtcErrorEntry(b, e) == <<b, "UTC error", e.type>> \o Cut(e.msg)

\* f"{base}: calc error - {type(e).__name__} - {str(e)[:160]}"
CalcErrorEntry(b, e) == <<b, "calc error", e.type>> \o Cut(e.msg)

\* want_x and bool(x_flags[-1]), for the three patterns
LastFlags(o, cl) ==
    LET f == compute_nr_flags(cl)
    IN  [nr10 |-> o.want_nr10 /\ f.nr10[Len(cl)],
         nr7  |-> o.want_nr7 /\ f.nr7[Len(cl)],
         nr4  |-> o.want_nr4 /\ f.nr4[Len(cl)]]

\* in_nr_range
InNrRange(cl) ==
    LET r == simulate_breakouts_since_last_nr(cl)
        last_close == cl[Len(cl)].close
    IN  IF r.rh # None /\ r.rl # None
        THEN /\ Min(r.rl[1], r.rh[1]) <= last_close
             /\ last_close <= Max(r.rl[1], r.rh[1])
        ELSE FALSE

\* the in-range clause of show_row left out
ShowRowRequestedOnly(o, cl) ==
    LET nr == LastFlags(o, cl)
    IN  IF o.show_inrange_only /\ ~InNrRange(cl) THEN FALSE
        ELSE nr.nr10 \/ nr.nr7 \/ nr.nr4

\* Whether the item's row is appended: not if the in-range filter
\* 'continue's, and otherwise if show_row
ShowRow(o, cl) ==
    LET nr == LastFlags(o, cl)
    IN  IF o.show_inrange_only /\ ~InNrRange(cl) THEN FALSE
        ELSE (nr.nr10 \/ nr.nr7 \/ nr.nr4)
               \/ (o.show_inrange_only /\ InNrRange(cl))

\* The dict appended to results (its name, last_close, range and
\* nr_setup fields left out)
ResultRow(base, o, cl, exu, pair, src, cid) ==
    LET nr == LastFlags(o, cl)
        r  == simulate_breakouts_since_last_nr(cl)
    IN  [symbol |-> base, NR10 |-> nr.nr10, NR7 |-> nr.nr7, NR4 |-> nr.nr4,
         in_nr_range_now |-> InNrRange(cl),
         breakout_state |-> r.breakout_state,
         breakout_tag |-> r.breakout_tag,
         exchange_used |-> exu, pair_used |-> pair, data_source |-> src,
         coingecko_id |-> cid]

----------------------------------------------------------------------------
(* Detector driver: every series of up to MaxLen candles whose ranges are  *)
(* drawn from RangeValues is built one candle at a time, and               *)
(* compute_nr_flags is applied to it.  Whether range[i] is a window's      *)
(* minimum depends only on which other ranges are smaller than it, so two  *)
(* values produce every pattern of flags.                                  *)

MaxLen == 11

RangeValues == {1, 2}

\* The tracker's variables while another component is exercised
TrkParked ==
    /\ tpc = "off"
    /\ setup_idx = 0
    /\ rh = 0
    /\ rl = 0
    /\ trk = <<>>
    /\ j = 0
    /\ ret = <<>>
    /\ events = <<>>
    /\ nfol = 0

\* The adapters' variables while another component is exercised
AdParked ==
    /\ now = 0
    /\ raw = <<>>
    /\ rows = <<>>
    /\ asrc = "off"
    /\ fetched_at = 0

\* The CoinGecko client's variables while another component is exercised
CgParked ==
    /\ cg_clock = 0
    /\ cg_last = 0
    /\ cgpc = "off"
    /\ attempt = 0
    /\ max_retries = 0
    /\ last_exc = "none"
    /\ cg_out = "none"
    /\ cg_gap = <<>>
    /\ cg_hist = <<>>

\* The scan loop's variables while another component is exercised
ScanParked ==
    /\ opts = <<>>
    /\ scan_list = <<>>
    /\ world = <<>>
    /\ item_no = 0
    /\ spc = "off"
    /\ ex_pos = 0
    /\ coin_id = ""
    /\ exchange_used = ""
    /\ pair_used = ""
    /\ data_source = ""
    /\ last_reason = <<>>
    /\ results = <<>>
    /\ skipped = <<>>
    /\ errors = <<>>
    /\ tried = <<>>
    /\ iter = <<>>

DetInit ==
    /\ closed = <<>>
    /\ nr4 = <<>>
    /\ nr7 = <<>>
    /\ nr10 = <<>>
    /\ dpc = "idle"
    /\ TrkParked
    /\ AdParked
    /\ CgParked
    /\ ScanParked

NewCandle ==
    /\ Len(closed) < MaxLen
    /\ \E r \in RangeValues :
         closed' = Append(closed,
                          Candle(Len(closed) + 1, 100 + r, 100, 100))
    /\ dpc' = "idle"
    /\ nr4' = <<>>
    /\ nr7' = <<>>
    /\ nr10' = <<>>
    /\ UNCHANGED notDet

ComputeFlags ==
    /\ dpc = "idle"
    /\ LET f == compute_nr_flags(closed)
       IN  /\ nr4' = f.nr4
           /\ nr7' = f.nr7
           /\ nr10' = f.nr10
    /\ dpc' = "flagged"
    /\ UNCHANGED <<closed, notDet>>

DetNext == NewCandle \/ ComputeFlags

SpecDetect == DetInit /\ [][DetNext]_vars

\* The ranges of the series, as compute_nr_flags reads them
Rngs == [i \in 1..Len(closed) |-> closed[i].range]

\* raw_w(i): w candles end at i and range[i] is the minimum of the last w
\* ranges, a tie with an earlier range included
RawNR(w, i) ==
    /\ i >= w
    /\ \A k \in (i - w + 1)..i : Rngs[i] <= Rngs[k]

\* C1: at every index at most one of nr4, nr7, nr10 is set: nr10 excludes
\* nr7 and nr4, and nr7 excludes nr4.
C1_MutuallyExclusive ==
    dpc = "flagged" =>
        \A i \in 1..Len(closed) :
            /\ nr10[i] => (~nr7[i] /\ ~nr4[i])
            /\ nr7[i] => ~nr4[i]

\* flags computed for a series with an index whose range is the minimum of
\* the last 4, 7 and 10 ranges at once
C1_Witness ==
    /\ dpc = "flagged"
    /\ \E i \in 1..Len(closed) :
          RawNR(W4, i) /\ RawNR(W7, i) /\ RawNR(W10, i) /\ nr10[i]

\* C2: nr10[i] = raw_10(i), nr7[i] = raw_7(i) and not raw_10(i),
\* nr4[i] = raw_4(i) and not raw_7(i) and not raw_10(i), at every index.
C2_FlagsAreRawWithSuppression ==
    dpc = "flagged" =>
        \A i \in 1..Len(closed) :
            /\ nr10[i] = RawNR(W10, i)
            /\ nr7[i] = (RawNR(W7, i) /\ ~RawNR(W10, i))
            /\ nr4[i] = (RawNR(W4, i) /\ ~RawNR(W7, i) /\ ~RawNR(W10, i))

\* flags computed for a series in which NR4 is set by a tie at an index
\* where ten candles are available, NR10 is set at another index, and some
\* index is no NR at all although four candles end there
C2_Witness ==
    /\ dpc = "flagged"
    /\ \E i \in W10..Len(closed) :
          nr4[i] /\ \E k \in (i - W4 + 1)..(i - 1) : Rngs[k] = Rngs[i]
    /\ \E i \in 1..Len(closed) : nr10[i]
    /\ \E i \in W4..Len(closed) : ~nr4[i] /\ ~nr7[i] /\ ~nr10[i]

----------------------------------------------------------------------------
(* Tracker driver: a start series (rising ranges, so none of its candles   *)
(* is an NR candle, then possibly one narrow candle) is extended by up to  *)
(* MaxFollow candles of free close and still rising range, to at most      *)
(* MaxTrackLen candles, and simulate_breakouts_since_last_nr runs on the   *)
(* result, one iteration of its forward loop per step.                     *)

MaxFollow == 4

MaxTrackLen == 13

\* closes below, at and above the setup low (90), midpoint and high (110)
CloseLevels == {85, 90, 95, 100, 105, 110, 115, 130}

Rising(n) == [k \in 1..n |-> Candle(k, 120 + k, 80, 100)]

StartSeries ==
    {Append(Rising(7), Candle(8, 110, 90, 100)),
     Append(Rising(10), Candle(11, 115, 90, 110)),
     Rising(12)}

TrkInit ==
    /\ closed \in StartSeries
    /\ nr4 = <<>>
    /\ nr7 = <<>>
    /\ nr10 = <<>>
    /\ dpc = "off"
    /\ tpc = "build"
    /\ setup_idx = 0
    /\ rh = 0
    /\ rl = 0
    /\ trk = TrackStart
    /\ j = 0
    /\ ret = <<>>
    /\ events = <<>>
    /\ nfol = 0
    /\ AdParked
    /\ CgParked
    /\ ScanParked

AddFollower ==
    /\ tpc = "build"
    /\ nfol < MaxFollow
    /\ Len(closed) < MaxTrackLen
    /\ \E c \in CloseLevels :
         LET p == Len(closed) + 1
         IN  closed' = Append(closed, Candle(p, c + p, c - 40, c))
    /\ nfol' = nfol + 1
    /\ UNCHANGED <<nr4, nr7, nr10, dpc, tpc, setup_idx, rh, rl, trk, j, ret,
                   events>>
    /\ UNCHANGED notTrk

\* if len(closed) < 12: return ...
SimTooShort ==
    /\ tpc = "build"
    /\ Len(closed) < MinSeries
    /\ ret' = NoSetup
    /\ tpc' = "done"
    /\ UNCHANGED <<closed, nr4, nr7, nr10, dpc, setup_idx, rh, rl, trk, j,
                   events, nfol>>
    /\ UNCHANGED notTrk

\* if setup_idx == -1: return ...
SimNoSetup ==
    /\ tpc = "build"
    /\ Len(closed) >= MinSeries
    /\ LET f == compute_nr_flags(closed)
       IN  /\ FindSetup(f, Len(closed)) = 0
           /\ nr4' = f.nr4
           /\ nr7' = f.nr7
           /\ nr10' = f.nr10
    /\ ret' = NoSetup
    /\ tpc' = "done"
    /\ UNCHANGED <<closed, dpc, setup_idx, rh, rl, trk, j, events, nfol>>
    /\ UNCHANGED notTrk

\* the setup is found: rh, rl, the armed flags and counters are set
SimSetup ==
    /\ tpc = "build"
    /\ Len(closed) >= MinSeries
    /\ LET f   == compute_nr_flags(closed)
           idx == FindSetup(f, Len(closed))
       IN  /\ idx # 0
           /\ nr4' = f.nr4
           /\ nr7' = f.nr7
           /\ nr10' = f.nr10
           /\ setup_idx' = idx
           /\ rh' = closed[idx].high
           /\ rl' = closed[idx].low
           /\ j' = idx + 1
    /\ trk' = TrackStart
    /\ tpc' = "scan"
    /\ UNCHANGED <<closed, dpc, ret, events, nfol>>
    /\ UNCHANGED notTrk

\* The events an iteration fired, read off the counters it changed
Fired(old, new, at) ==
    (IF new.down_count # old.down_count
     THEN <<[dir |-> "DOWN", n |-> new.down_count, at |-> at]>> ELSE <<>>)
    \o
    (IF new.up_count # old.up_count
     THEN <<[dir |-> "UP", n |-> new.up_count, at |-> at]>> ELSE <<>>)

SimStep ==
    /\ tpc = "scan"
    /\ j <= Len(closed)
    /\ LET new == TrackStep(trk, closed[j - 1].close, closed[j].close, rh, rl)
       IN  /\ trk' = new
           /\ events' = events \o Fired(trk, new, j)
    /\ j' = j + 1
    /\ UNCHANGED <<closed, nr4, nr7, nr10, dpc, tpc, setup_idx, rh, rl, ret,
                   nfol>>
    /\ UNCHANGED notTrk

SimReturn ==
    /\ tpc = "scan"
    /\ j > Len(closed)
    /\ ret' = Returned(closed, [nr4 |-> nr4, nr7 |-> nr7, nr10 |-> nr10],
                       setup_idx, trk)
    /\ tpc' = "done"
    /\ UNCHANGED <<closed, nr4, nr7, nr10, dpc, setup_idx, rh, rl, trk, j,
                   events, nfol>>
    /\ UNCHANGED notTrk

TrkNext ==
    \/ AddFollower
    \/ SimTooShort
    \/ SimNoSetup
    \/ SimSetup
    \/ SimStep
    \/ SimReturn

SpecTrack == TrkInit /\ [][TrkNext]_vars

\* The stepwise run returns what the function as a whole returns
StepwiseAgrees ==
    tpc = "done" => ret = simulate_breakouts_since_last_nr(closed)

\* The closes of the candles after the setup candle
ClosesAfterSetup ==
    [k \in 1..(Len(closed) - setup_idx) |-> closed[setup_idx + k].close]

\* The events fired, each as <<direction, number, close of its candle>>
EventList ==
    [e \in 1..Len(events) |->
        <<events[e].dir, events[e].n, closed[events[e].at].close>>]

\* The run is over, its setup candle has high 110 and low 90 and is
\* followed by exactly the closes 105, 115, 95, 130
Scenario ==
    /\ tpc = "done"
    /\ setup_idx # 0
    /\ closed[setup_idx].high = 110
    /\ closed[setup_idx].low = 90
    /\ ClosesAfterSetup = <<105, 115, 95, 130>>

\* C3 as stated: the scenario fires UP#1 at 115, DOWN#1 at 95, UP#2 at 130
\* and returns UP, UP#2, up_count 2, down_count 1.
C3_AsStated ==
    Scenario =>
        /\ EventList = <<<<"UP", 1, 115>>, <<"DOWN", 1, 95>>, <<"UP", 2, 130>>>>
        /\ ret.breakout_state = "UP"
        /\ ret.breakout_tag = Tag("UP", 2)
        /\ ret.up_count = 2
        /\ ret.down_count = 1

\* C3 amended: the scenario fires UP#1 at 115 and UP#2 at 130 and no DOWN
\* event (95 is not below the setup low 90; it only re-arms the UP side),
\* and returns UP, UP#2, up_count 2, down_count 0.
C3_Scenario ==
    Scenario =>
        /\ EventList = <<<<"UP", 1, 115>>, <<"UP", 2, 130>>>>
        /\ ret.breakout_state = "UP"
        /\ ret.breakout_tag = Tag("UP", 2)
        /\ ret.up_count = 2
        /\ ret.down_count = 0

\* the scenario has run to its end on a series of at least 12 candles
C3_Witness ==
    /\ Scenario
    /\ Len(closed) >= MinSeries
    /\ ret.rh = Some(110)
    /\ ret.up_count = 2

\* events a and b are consecutive events of one direction
Consecutive(a, b) ==
    /\ a < b
    /\ events[a].dir = events[b].dir
    /\ \A e \in (a + 1)..(b - 1) : events[e].dir # events[a].dir

\* a candle strictly between the two events closed across the midpoint,
\* on the side opposite to their direction
ReturnedAcrossMid(a, b) ==
    \E k \in (events[a].at + 1)..(events[b].at - 1) :
        IF events[a].dir = "UP"
        THEN 2 * closed[k].close < rh + rl
        ELSE 2 * closed[k].close > rh + rl

CountOf(dir) == Cardinality({e \in 1..Len(events) : events[e].dir = dir})

\* C4: between two consecutive UP events a candle closed strictly below
\* the midpoint, between two consecutive DOWN events one closed strictly
\* above it; the counters count exactly the events fired.
C4_RearmBetweenEvents ==
    /\ \A a, b \in 1..Len(events) :
          Consecutive(a, b) => ReturnedAcrossMid(a, b)
    /\ tpc \in {"scan", "done"} =>
          /\ trk.up_count = CountOf("UP")
          /\ trk.down_count = CountOf("DOWN")

\* a run with two UP and two DOWN events
C4_Witness ==
    /\ tpc = "done"
    /\ CountOf("UP") = 2
    /\ CountOf("DOWN") = 2

----------------------------------------------------------------------------
(* Adapter driver.  The exchange returns daily bars in ascending order,    *)
(* one per period and none later than the period in progress; CoinGecko    *)
(* returns ticks of the days around RefDay, in any order.                  *)

RefDay == 20

MaxExtraBars == 1

MaxTicks == 3

\* The exchange's bar of a day
Bar(d) ==
    [ts |-> d * DayLen, high |-> 110 + (d % 3), low |-> 90 - (d % 2),
     close |-> 100]

\* n bars ending at day 'last', with one period missing after bar 'gapAt'
Bars(n, last, gapAt) ==
    [i \in 1..n |-> Bar(last - (n - i) - (IF i <= gapAt THEN 1 ELSE 0))]

\* A tick: a narrow or a wide one
TickAt(ts, c) ==
    [ts |-> ts, high |-> 100 + 10 * c, low |-> 100 - 10 * c,
     close |-> 100 + c]

AdInit ==
    /\ now \in (RefDay * DayLen)..(RefDay * DayLen + DayLen - 1)
    /\ raw = <<>>
    /\ rows = <<>>
    /\ asrc = "none"
    /\ fetched_at = 0
    /\ closed = <<>>
    /\ nr4 = <<>>
    /\ nr7 = <<>>
    /\ nr10 = <<>>
    /\ dpc = "off"
    /\ TrkParked
    /\ CgParked
    /\ ScanParked

\* time passes while the upstream answers, at most to the end of the day
\* after RefDay
ClockTick ==
    /\ asrc \in {"none", "ticks"}
    /\ now < (RefDay + 2) * DayLen - 1
    /\ now' = now + 1
    /\ UNCHANGED <<raw, rows, asrc, fetched_at, detVars, trkVars, cgVars,
                   scanVars>>

\* fetch_ohlcv_ccxt on what the exchange returns now
FetchCcxt ==
    /\ \E n \in (MinBars - 1)..(MinBars + MaxExtraBars),
          last \in {DayOf(now) - 1, DayOf(now)},
          gapAt \in {0, 3} :
         /\ raw' = Bars(n, last, gapAt)
         /\ rows' = fetch_ohlcv_ccxt(Bars(n, last, gapAt))
    /\ asrc' = "ccxt"
    /\ fetched_at' = now
    /\ UNCHANGED <<now, detVars, trkVars, cgVars,
                   scanVars>>

\* one more tick in CoinGecko's answer
CoinGeckoTick ==
    /\ asrc \in {"none", "ticks"}
    /\ Len(raw) < MaxTicks
    /\ \E ts \in ((RefDay - 1) * DayLen - 1)..(RefDay * DayLen + DayLen - 1),
          c \in {1, 2} :
         raw' = Append(raw, TickAt(ts, c))
    /\ asrc' = "ticks"
    /\ UNCHANGED <<now, rows, fetched_at, detVars, trkVars, cgVars,
                   scanVars>>

\* cg_ohlc_utc_daily_cached on CoinGecko's answer
CgDaily ==
    /\ asrc = "ticks"
    /\ rows' = cg_ohlc_utc_daily(raw, now)
    /\ asrc' = "cg"
    /\ fetched_at' = now
    /\ UNCHANGED <<now, raw, detVars, trkVars, cgVars,
                   scanVars>>

\* A daily series as a payload: one tick per candle, at slot 'slot' of
\* the candle's day
AsDaily(series, slot) ==
    [i \in 1..Len(series) |->
        [ts |-> series[i].time * DayLen + slot, high |-> series[i].high,
         low |-> series[i].low, close |-> series[i].close]]

\* cg_ohlc_utc_daily_cached on the series it returned, now or later
CgDailyAgain ==
    /\ asrc = "cg"
    /\ \E later \in now..((RefDay + 2) * DayLen - 1), slot \in 0..(DayLen - 1) :
         /\ now' = later
         /\ fetched_at' = later
         /\ rows' = cg_ohlc_utc_daily(AsDaily(rows, slot), later)
    /\ asrc' = "again"
    /\ UNCHANGED <<raw, detVars, trkVars, cgVars, scanVars>>

AdNext ==
    \/ ClockTick
    \/ FetchCcxt
    \/ CoinGeckoTick
    \/ CgDaily
    \/ CgDailyAgain

SpecAdapter == AdInit /\ [][AdNext]_vars

\* The period (UTC day) a returned row stands for
PeriodOf(row) == IF asrc = "ccxt" THEN DayOf(row.time) ELSE row.time

\* The period in progress when the series was returned
CurrentPeriod == DayOf(fetched_at)

\* C6: no series returned by fetch_ohlcv_ccxt or by the daily aggregation
\* holds a candle of the period in progress when it was returned.
C6_NoOpenPeriod ==
    asrc \in {"ccxt", "cg"} =>
        \A i \in 1..Len(rows) : PeriodOf(rows[i]) # CurrentPeriod

\* the daily aggregation returned a series for a payload with two ticks
\* in the day in progress, its latest ticks
C6_Witness ==
    /\ asrc = "cg"
    /\ Len(rows) > 0
    /\ \E a, b \in 1..Len(raw) :
          a # b /\ DayOf(raw[a].ts) = CurrentPeriod
                /\ DayOf(raw[b].ts) = CurrentPeriod
    /\ \A i \in 1..Len(raw) : DayOf(raw[i].ts) <= CurrentPeriod

\* The positions in the payload of the ticks of UTC day k
DayTicks(k) == {n \in 1..Len(raw) : DayOf(raw[n].ts) = k}

\* The positions of the ticks of day k that bear its latest timestamp
LatestTicks(k) ==
    {n \in DayTicks(k) : \A m \in DayTicks(k) : raw[m].ts <= raw[n].ts}

\* The candle of row i has the highest high and the lowest low of its day
HighLowOfDay(i) ==
    LET T == DayTicks(rows[i].time)
    IN  /\ \E n \in T : rows[i].high = raw[n].high
        /\ \A n \in T : raw[n].high <= rows[i].high
        /\ \E n \in T : rows[i].low = raw[n].low
        /\ \A n \in T : rows[i].low <= raw[n].low

\* C12: each daily candle returned has the highest high and the lowest low
\* of its day's ticks and the close of the day's tick with the latest
\* timestamp, the one that comes last in the payload when several ticks
\* bear that timestamp.
C12_AsStated ==
    asrc = "cg" =>
        \A i \in 1..Len(rows) :
            /\ HighLowOfDay(i)
            /\ \E n \in LatestTicks(rows[i].time) :
                  /\ \A m \in LatestTicks(rows[i].time) : m <= n
                  /\ rows[i].close = raw[n].close

\* What the aggregation does: the close is that of the tick that comes
\* first in the payload among those bearing the day's latest timestamp.
C12_FirstOfLatestWins ==
    asrc = "cg" =>
        \A i \in 1..Len(rows) :
            /\ HighLowOfDay(i)
            /\ \E n \in LatestTicks(rows[i].time) :
                  /\ \A m \in LatestTicks(rows[i].time) : n <= m
                  /\ rows[i].close = raw[n].close

\* a candle was returned for a day whose latest timestamp is borne by
\* two ticks with different closes, an earlier tick of the day before them
C12_Witness ==
    /\ asrc = "cg"
    /\ \E i \in 1..Len(rows) :
          \E a, b \in LatestTicks(rows[i].time) :
              /\ a < b
              /\ raw[a].close # raw[b].close
              /\ rows[i].close = raw[a].close
              /\ \E n \in DayTicks(rows[i].time) : raw[n].ts < raw[a].ts

\* C13: the daily aggregation applied to a series it returned, one tick per
\* day, returns that series: the same length, the same time, high, low,
\* close and range in each candle, in the same ascending order.
C13_Idempotent == [][asrc' = "again" => rows' = rows]_vars

\* a series of two candles made of three ticks was aggregated again on a
\* later day
C13_Witness ==
    /\ asrc = "again"
    /\ Len(raw) = 3
    /\ Len(rows) = 2
    /\ rows[1].time < rows[2].time
    /\ DayOf(fetched_at) > rows[2].time + 1

----------------------------------------------------------------------------
(* CoinGecko client driver: cg_get calls, one after the other, each with   *)
(* up to MaxRetries attempts, on a clock bounded by MaxClock.              *)

MaxClock == 30

MaxRetries == 3

MaxOver == 1

MaxLatency == 1

CgInit ==
    /\ cg_clock = MinInterval
    /\ cg_last = 0
    /\ cgpc = "idle"
    /\ attempt = 0
    /\ max_retries = 0
    /\ last_exc = "none"
    /\ cg_out = "none"
    /\ cg_gap = None
    /\ cg_hist = NoAttempt
    /\ closed = <<>>
    /\ nr4 = <<>>
    /\ nr7 = <<>>
    /\ nr10 = <<>>
    /\ dpc = "off"
    /\ TrkParked
    /\ AdParked
    /\ ScanParked

\* time passes between two calls of cg_get
CgIdle ==
    /\ cgpc = "idle"
    /\ cg_clock < MaxClock
    /\ cg_clock' = cg_clock + 1
    /\ UNCHANGED <<cg_last, cgpc, attempt, max_retries, last_exc, cg_out,
                   cg_gap, cg_hist, detVars, trkVars, adVars,
                   scanVars>>

\* cg_get is called without COINGECKO_DEMO_API_KEY: RuntimeError
CgGetNoKey ==
    /\ cgpc = "idle"
    /\ cg_out' = "RuntimeError"
    /\ cg_hist' = NoAttempt
    /\ UNCHANGED <<cg_clock, cg_last, cgpc, attempt, max_retries, last_exc,
                   cg_gap, detVars, trkVars, adVars,
                   scanVars>>

\* cg_get is called: backoff = 2.0, last_exc = None, attempt = 1
CgGet ==
    /\ cgpc = "idle"
    /\ \E mr \in 1..MaxRetries : max_retries' = mr
    /\ attempt' = 1
    /\ last_exc' = "none"
    /\ cg_out' = "none"
    /\ cg_hist' = NoAttempt
    /\ cgpc' = "limit"
    /\ UNCHANGED <<cg_clock, cg_last, cg_gap, detVars, trkVars, adVars,
                   scanVars>>

\* _cg_rate_limit(min_interval_sec)
CgRateLimit ==
    /\ cgpc = "limit"
    /\ \E over \in 0..MaxOver :
         LET at == RateLimitedAt(cg_last, MinInterval, cg_clock, over)
         IN  /\ at <= MaxClock
             /\ cg_clock' = at
             /\ cg_last' = at
             /\ cg_gap' = <<at - cg_last,
                           Wait(cg_last, MinInterval, cg_clock)>>
    /\ cgpc' = "request"
    /\ UNCHANGED <<attempt, max_retries, last_exc, cg_out, cg_hist, detVars,
                   trkVars, adVars, scanVars>>

\* What follows a failed attempt: the next one, or the end of the loop
AfterFailure(out) ==
    IF attempt = max_retries
    THEN /\ cgpc' = "idle"
         /\ cg_out' = out
         /\ UNCHANGED attempt
    ELSE /\ cgpc' = "limit"
         /\ attempt' = attempt + 1
         /\ UNCHANGED cg_out

\* status 429: time.sleep(backoff * attempt); continue
Cg429 ==
    /\ cgpc = "request"
    /\ \E d \in 0..MaxLatency, over \in 0..MaxOver :
         /\ cg_clock + d + BackoffSleep(attempt) + over <= MaxClock
         /\ cg_clock' = cg_clock + d + BackoffSleep(attempt) + over
    /\ cg_hist' = Logged("429", BackoffSleep(attempt))
    /\ AfterFailure(Exhausted(last_exc))
    /\ UNCHANGED <<cg_last, max_retries, last_exc, cg_gap, detVars, trkVars,
                   adVars, scanVars>>

\* requests.RequestException: raised again by the last attempt, slept on
\* by the others
CgError ==
    /\ cgpc = "request"
    /\ last_exc' = "RequestException"
    /\ \E d \in 0..MaxLatency, over \in 0..MaxOver :
         LET slept == IF attempt = max_retries THEN 0
                      ELSE BackoffSleep(attempt) + over
         IN  /\ cg_clock + d + slept <= MaxClock
             /\ cg_clock' = cg_clock + d + slept
    /\ cg_hist' = Logged("RequestException",
                         IF attempt = max_retries THEN 0
                         ELSE BackoffSleep(attempt))
    /\ AfterFailure("RequestException")
    /\ UNCHANGED <<cg_last, max_retries, cg_gap, detVars, trkVars, adVars,
                   scanVars>>

\* return r.json()
CgOk ==
    /\ cgpc = "request"
    /\ \E d \in 0..MaxLatency :
         /\ cg_clock + d <= MaxClock
         /\ cg_clock' = cg_clock + d
    /\ cg_out' = "json"
    /\ cg_hist' = Logged("json", 0)
    /\ cgpc' = "idle"
    /\ UNCHANGED <<cg_last, attempt, max_retries, last_exc, cg_gap, detVars,
                   trkVars, adVars, scanVars>>

CgNext ==
    \/ CgIdle
    \/ CgGetNoKey
    \/ CgGet
    \/ CgRateLimit
    \/ Cg429
    \/ CgError
    \/ CgOk

SpecCG == CgInit /\ [][CgNext]_vars

\* C10: two consecutive values written to _CG_LAST_CALL are at least
\* min_interval_sec apart.
C10_MinIntervalApart ==
    cg_gap # None => cg_gap[1] >= MinInterval

\* a call of _cg_rate_limit, not the first, that had to sleep: it was
\* requested less than the interval after the previous one
C10_Witness ==
    /\ cg_gap # None
    /\ cgpc = "request"
    /\ cg_gap[2] > 0
    /\ cg_last - cg_gap[1] > 0

\* The cg_get call has ended with every one of its max_retries attempts
\* failed
AllFailed ==
    /\ cgpc = "idle"
    /\ Len(cg_hist.outcomes) > 0
    /\ Len(cg_hist.outcomes) = max_retries
    /\ \A i \in 1..Len(cg_hist.outcomes) : cg_hist.outcomes[i] # "json"

\* The outcome of the last attempt made
LastOutcome == cg_hist.outcomes[Len(cg_hist.outcomes)]

\* A failed attempt that another attempt follows
FailedBeforeNext(i) ==
    /\ i \in 1..Len(cg_hist.outcomes)
    /\ cg_hist.outcomes[i] # "json"
    /\ i < max_retries
    /\ (i < Len(cg_hist.outcomes) \/ cgpc = "limit")

\* C11: cg_get makes at most max_retries attempts, sleeps backoff * attempt
\* after each failed attempt before the next one, and when all max_retries
\* attempts have failed it raises the error of the last attempt: a
\* rate-limit failure after a 429, the request error after a request error.
C11_AsStated ==
    /\ Len(cg_hist.outcomes) <= max_retries
    /\ \A i \in 1..Len(cg_hist.outcomes) :
          FailedBeforeNext(i) => cg_hist.sleeps[i] = Backoff * i
    /\ AllFailed =>
          cg_out = IF LastOutcome = "429" THEN "RateLimited"
                   ELSE "RequestException"

\* What cg_get does keep of it: the bound on the attempts, the sleeps
\* between them, and the request error raised when the last attempt
\* raised one; after a last attempt answered 429 it raises the request
\* error of an earlier attempt, or a RuntimeError when there was none.
C11_RetriesAndBackoff ==
    /\ Len(cg_hist.outcomes) <= max_retries
    /\ \A i \in 1..Len(cg_hist.outcomes) :
          FailedBeforeNext(i) => cg_hist.sleeps[i] = Backoff * i
    /\ AllFailed =>
          cg_out = IF \E i \in 1..Len(cg_hist.outcomes) :
                          cg_hist.outcomes[i] = "RequestException"
                   THEN "RequestException"
                   ELSE "RuntimeError"

\* a call whose first attempt raised a request error and whose last
\* attempt was answered 429 has ended, raising the request error
C11_Witness ==
    /\ AllFailed
    /\ max_retries > 1
    /\ cg_hist.outcomes[1] = "RequestException"
    /\ LastOutcome = "429"
    /\ cg_hist.sleeps[1] = Backoff
    /\ cg_out = "RequestException"

----------------------------------------------------------------------------
(* Scan driver: main's loop over a scan_list of MaxSymbols items, for each *)
(* of Options and in each of Worlds.  A world fixes what does not change   *)
(* during a scan: the providers the installed ccxt has, the markets each   *)
(* provider lists (they are cached), each coin's candles, and what is     *)
(* wrong with the network, if anything is.  What may differ from one       *)
(* request to the next is left open at every attempt: whether it raises,   *)
(* and whether the answer is too short.                                    *)

MaxSymbols == 2

Tickers == <<"BTC", "ETH", "SOL">>

\* The closed candles of a history: with the bar in progress, the fewest
\* bars fetch_ohlcv_ccxt accepts
HistLen == MinBars - 1

\* A candle after the setup of 'inside' and 'outside' (candle 10, high
\* 110 and low 90), wider than any before it
Follow(p, c) == Candle(p, c + p, c - 40, c)

\* Histories whose last candle is an NR10, an NR7, an NR4, or no NR candle
\* with the close inside the last setup's range, outside it, or no setup
Histories ==
    [last10  |-> Append(Rising(13), Candle(14, 110, 90, 100)),
     last7   |-> Append(Rising(13), Candle(14, 127, 80, 100)),
     last4   |-> Append(Rising(13), Candle(14, 130, 80, 100)),
     inside  |-> Append(Rising(9), Candle(10, 110, 90, 100))
                \o <<Follow(11, 100), Follow(12, 115), Follow(13, 100),
                     Follow(14, 100)>>,
     outside |-> Append(Rising(9), Candle(10, 110, 90, 100))
                \o <<Follow(11, 100), Follow(12, 115), Follow(13, 115),
                     Follow(14, 115)>>,
     plain   |-> Rising(14)]

\* What fetch_ohlcv returns: the last n closed candles of a history, one
\* bar a day, and the bar of the day in progress
OhlcvOf(h, n) ==
    [k \in 1..(n + 1) |->
        IF k = n + 1
        THEN [ts |-> (HistLen + 1) * DayLen, high |-> 101, low |-> 99,
              close |-> 100]
        ELSE LET c == h[HistLen - n + k]
             IN  [ts |-> c.time * DayLen, high |-> c.high, low |-> c.low,
                  close |-> c.close]]

\* datetime.now(timezone.utc) during the scan
ScanClock == (HistLen + 1) * DayLen + 1

\* What CoinGecko returns: one tick for each of the last n closed days of
\* a history, and a tick of the day in progress
TicksOf(h, n) ==
    [k \in 1..(n + 1) |->
        IF k = n + 1
        THEN [ts |-> ScanClock, high |-> 101, low |-> 99, close |-> 100]
        ELSE LET c == h[HistLen - n + k]
             IN  [ts |-> c.time * DayLen, high |-> c.high, low |-> c.low,
                  close |-> c.close]]

\* A market of a provider
Market(sym, b, q, act, sw, fut, ty) ==
    [sym |-> sym,
     m |-> [base |-> b, quote |-> q, active |-> act, swap |-> sw,
            future |-> fut, contract |-> sw \/ fut, type |-> ty,
            settle |-> q, linear |-> sw \/ fut]]

LowerTicker(b) == CHOOSE l \in {"btc", "eth", "sol"} : Upper(l) = b

Perp(b) == Market(<<b, "/USDT", ":USDT">>, b, "USDT", TRUE, TRUE, FALSE,
                  "swap")

Dated(b) == Market(<<b, "/USDT", ":USDT", "-261225">>, b, "USDT", TRUE,
                   FALSE, TRUE, "future")

Spot(b) == Market(<<b, "/USDT">>, b, "USDT", TRUE, FALSE, FALSE, "spot")

Inactive(b) == Market(<<b, "/USDT", ":USDT">>, b, "USDT", FALSE, TRUE,
                      FALSE, "swap")

UsdcPerp(b) == Market(<<b, "/USDC", ":USDC">>, b, "USDC", TRUE, TRUE,
                      FALSE, "swap")

LowerPerp(b) == Market(<<b, "/USDT", ":USDT">>, LowerTicker(b), "USDT",
                       TRUE, TRUE, FALSE, "swap")

\* The markets of a provider, by what it has of base b
MarketsOf(kind, b) ==
    CASE kind = "none"  -> <<>>
      [] kind = "spot"  -> <<Spot(b)>>
      [] kind = "junk"  -> <<Spot(b), Inactive(b), UsdcPerp(b),
                             Perp("DOGE")>>
      [] kind = "perp"  -> <<Perp(b)>>
      [] kind = "mixed" -> <<Dated(b), Spot(b), Perp(b)>>
      [] kind = "lower" -> <<LowerPerp(b)>>
      [] kind = "dated" -> <<Dated(b)>>

\* what each provider of PROVIDER_CHAIN has of a coin, in the chain's order
Listing(k1, k2, k3, k4, k5, k6) ==
    [e \in {PROVIDER_CHAIN[n] : n \in 1..Len(PROVIDER_CHAIN)} |->
        <<k1, k2, k3, k4, k5, k6>>[
            CHOOSE n \in 1..Len(PROVIDER_CHAIN) : PROVIDER_CHAIN[n] = e]]

\* A coin: its history and where it is listed
Coins ==
    <<[hist |-> "plain",
       on |-> Listing("perp", "perp", "perp", "none", "none", "none")],
      [hist |-> "last10",
       on |-> Listing("spot", "spot", "mixed", "spot", "spot", "lower")],
      [hist |-> "last4",
       on |-> Listing("none", "spot", "junk", "none", "spot", "junk")],
      [hist |-> "inside",
       on |-> Listing("junk", "junk", "junk", "dated", "junk", "junk")],
      [hist |-> "outside",
       on |-> Listing("perp", "none", "perp", "none", "none", "none")],
      [hist |-> "last7",
       on |-> Listing("spot", "spot", "spot", "spot", "lower", "perp")],
      [hist |-> "inside",
       on |-> Listing("none", "none", "none", "none", "none", "none")]>>

\* The fragments str(e) contains when a request raises, by world
Weather ==
    <<{}, {"451"}, {"429"}, {"Timed out"}, {"451", "429"},
      {"429", "Timed out"}, {"451", "429", "Timed out"}>>

\* In world r the first item of the scan is coin r, the next the coin
\* after it; in every other world ccxt lacks two of the providers
Worlds ==
    {[first |-> r,
      unsupported |-> IF r % 2 = 0 THEN {"bingx", "okx"} ELSE {},
      msg |-> Weather[r]] :
        r \in 1..Len(Coins)}

\* A text of n characters that are not of the key
Text(n) == [i \in 1..n |-> "."]

\* The length of COINGECKO_DEMO_API_KEY, and its characters
KeyLen == 27

Key == [i \in 1..KeyLen |-> "k"]

\* Where the key begins in str(e) of the HTTPError that raise_for_status
\* raises ("401 Client Error: Unauthorized for url: " and the request's
\* URL, which ends with x_cg_demo_api_key=<key>) and of a ConnectionError
\* ("HTTPSConnectionPool(...): Max retries exceeded with url: ", the URL's
\* path and query, " (Caused by ...)")
HttpKeyAt == 130

ConnKeyAt == 154

\* The exceptions cg_get ends with: the two request errors, and the
\* RuntimeError of line 301
UtcFailures ==
    {[type |-> "HTTPError", msg |-> Text(HttpKeyAt) \o Key],
     [type |-> "ConnectionError",
      msg |-> Text(ConnKeyAt) \o Key \o Text(40)],
     [type |-> "RuntimeError", msg |-> Text(29)]}

\* An exception of the evaluation
CalcFailure == [type |-> "TypeError", msg |-> Text(40)]

Wants ==
    {[want_nr4 |-> FALSE, want_nr7 |-> TRUE, want_nr10 |-> FALSE],
     [want_nr4 |-> TRUE, want_nr7 |-> FALSE, want_nr10 |-> TRUE]}

Fallbacks ==
    {[allow_utc_fallback |-> FALSE, tf |-> "1D", key |-> TRUE],
     [allow_utc_fallback |-> TRUE, tf |-> "4H", key |-> TRUE],
     [allow_utc_fallback |-> TRUE, tf |-> "1D", key |-> TRUE],
     [allow_utc_fallback |-> TRUE, tf |-> "1D", key |-> FALSE]}

ProviderModes == {<<"Auto">>, <<"Nur ", "BYBIT">>}

Options ==
    {[want_nr4 |-> w.want_nr4, want_nr7 |-> w.want_nr7,
      want_nr10 |-> w.want_nr10, show_inrange_only |-> s,
      allow_utc_fallback |-> f.allow_utc_fallback, tf |-> f.tf,
      key |-> f.key, provider_chain |-> ProviderChain(pm)] :
        w \in Wants, s \in BOOLEAN, f \in Fallbacks, pm \in ProviderModes}

\* detector, tracker, adapter and client variables the scan does not use
notScan == <<nr4, nr7, nr10, dpc, trkVars, adVars, cgVars>>

\* results, skipped, errors = [], [], []
ScanInit ==
    /\ opts \in Options
    /\ world \in Worlds
    /\ scan_list = [n \in 1..MaxSymbols |-> [symbol |-> Tickers[n]]]
    /\ item_no = 0
    /\ spc = "next"
    /\ ex_pos = 0
    /\ coin_id = ""
    /\ closed = None
    /\ exchange_used = ""
    /\ pair_used = ""
    /\ data_source = ""
    /\ last_reason = None
    /\ results = <<>>
    /\ skipped = <<>>
    /\ errors = <<>>
    /\ tried = <<>>
    /\ iter = <<>>
    /\ nr4 = <<>>
    /\ nr7 = <<>>
    /\ nr10 = <<>>
    /\ dpc = "off"
    /\ TrkParked
    /\ AdParked
    /\ CgParked

\* The item in progress, the provider in progress, and what the world
\* holds for them
base == scan_list[item_no].symbol

ex_id == opts.provider_chain[ex_pos]

Coin == Coins[((world.first + item_no - 2) % Len(Coins)) + 1]

History == Histories[Coin.hist]

\* load_markets_cached(ex_id)
Markets == MarketsOf(Coin.on[ex_id], base)

\* sym, and rows when the provider answers in full
Sym == find_ccxt_futures_symbol(Markets, base)

Rows == fetch_ohlcv_ccxt(OhlcvOf(History, HistLen))

\* for i, item in enumerate(scan_list, 1): the item's locals are reset
NextItem ==
    /\ spc = "next"
    /\ item_no < Len(scan_list)
    /\ item_no' = item_no + 1
    /\ \E cid \in {"", LowerTicker(scan_list[item_no + 1].symbol)} :
         coin_id' = cid
    /\ closed' = None
    /\ exchange_used' = ""
    /\ pair_used' = ""
    /\ data_source' = ""
    /\ last_reason' = None
    /\ ex_pos' = 1
    /\ spc' = "chain"
    /\ tried' = <<>>
    /\ iter' = [res0 |-> Len(results), skip0 |-> Len(skipped),
                err0 |-> Len(errors), unlisted |-> TRUE, got |-> None,
                raised |-> FALSE]
    /\ UNCHANGED <<opts, scan_list, world, results, skipped, errors,
                   notScan>>

\* the loop is over
ScanEnd ==
    /\ spc = "next"
    /\ item_no = Len(scan_list)
    /\ spc' = "done"
    /\ UNCHANGED <<opts, scan_list, world, item_no, ex_pos, coin_id, closed,
                   exchange_used, pair_used, data_source, last_reason,
                   results, skipped, errors, tried, iter, notScan>>

\* for ex_id in provider_chain: one more provider is tried
InChain == spc = "chain" /\ ex_pos <= Len(opts.provider_chain)

Attempted(got_rows) ==
    /\ tried' = Append(tried, [ex_id |-> ex_id, ok |-> got_rows])
    /\ ex_pos' = ex_pos + 1
    /\ UNCHANGED <<opts, scan_list, world, item_no, coin_id, results,
                   skipped, errors, notScan>>

\* if not hasattr(ccxt, ex_id)
ProvNotSupported ==
    /\ InChain
    /\ ex_id \in world.unsupported
    /\ last_reason' = <<ex_id, "not supported">>
    /\ spc' = AfterAttempt(FALSE)
    /\ iter' = [iter EXCEPT !.unlisted = FALSE]
    /\ Attempted(FALSE)
    /\ UNCHANGED <<closed, exchange_used, pair_used, data_source>>

\* load_markets_cached, find_ccxt_futures_symbol or fetch_ohlcv_ccxt raises
ProvRaises ==
    /\ InChain
    /\ ex_id \notin world.unsupported
    /\ last_reason' = ProviderExcept(ex_id, world.msg).last_reason
    /\ spc' = ProviderExcept(ex_id, world.msg).spc
    /\ iter' = [iter EXCEPT !.unlisted = FALSE]
    /\ Attempted(FALSE)
    /\ UNCHANGED <<closed, exchange_used, pair_used, data_source>>

\* if not sym
ProvNotListed ==
    /\ InChain
    /\ ex_id \notin world.unsupported
    /\ Sym = None
    /\ last_reason' = <<ex_id, "symbol not listed">>
    /\ spc' = AfterAttempt(FALSE)
    /\ Attempted(FALSE)
    /\ UNCHANGED <<closed, exchange_used, pair_used, data_source, iter>>

\* if not rows: the provider has no bars, or one too few
ProvNoData ==
    /\ InChain
    /\ ex_id \notin world.unsupported
    /\ Sym # None
    /\ \E ohlcv \in {<<>>, OhlcvOf(History, MinBars - 2)} :
         fetch_ohlcv_ccxt(ohlcv) = None
    /\ last_reason' = <<ex_id, "no data">>
    /\ spc' = AfterAttempt(FALSE)
    /\ iter' = [iter EXCEPT !.unlisted = FALSE]
    /\ Attempted(FALSE)
    /\ UNCHANGED <<closed, exchange_used, pair_used, data_source>>

\* closed = rows ... break
ProvSeries ==
    /\ InChain
    /\ ex_id \notin world.unsupported
    /\ Sym # None
    /\ Rows # None
    /\ closed' = Rows
    /\ pair_used' = Sym
    /\ iter' = [iter EXCEPT
                  !.unlisted = FALSE,
                  !.got = IF iter.got = None
                          THEN [ex_id |-> ex_id, sym |-> Sym, rows |-> Rows]
                          ELSE iter.got]
    /\ exchange_used' = ex_id
    /\ data_source' = "Futures"
    /\ spc' = AfterAttempt(TRUE)
    /\ Attempted(TRUE)
    /\ UNCHANGED last_reason

\* the chain is exhausted
ChainEnd ==
    /\ spc = "chain"
    /\ ex_pos > Len(opts.provider_chain)
    /\ spc' = IF closed = None THEN "after" ELSE "calc"
    /\ UNCHANGED <<opts, scan_list, world, item_no, ex_pos, coin_id, closed,
                   exchange_used, pair_used, data_source, last_reason,
                   results, skipped, errors, tried, iter, notScan>>

\* the fallback at any timeframe: (closed is None) and allow_utc_fallback
UtcTakenAnyTf == closed = None /\ opts.allow_utc_fallback

\* if (closed is None) and allow_utc_fallback and tf == "1D"
UtcTaken == closed = None /\ opts.allow_utc_fallback /\ opts.tf = "1D"

\* What lines 721-743 leave alone
AfterChain ==
    UNCHANGED <<opts, scan_list, world, item_no, ex_pos, coin_id,
                last_reason, results, tried, iter, notScan>>

\* if closed is None: skipped.append(...); continue
ClosedNone(skipped_so_far) ==
    /\ skipped' = Append(skipped_so_far, SkippedEntry(base, last_reason))
    /\ spc' = "next"
    /\ UNCHANGED <<closed, exchange_used, pair_used, data_source>>

\* no fallback: line 740 follows
NoFallback ==
    /\ spc = "after"
    /\ ~UtcTaken
    /\ ClosedNone(skipped)
    /\ AfterChain
    /\ UNCHANGED errors

\* if not os.getenv("COINGECKO_DEMO_API_KEY", "").strip()
UtcNoKey ==
    /\ spc = "after"
    /\ UtcTaken
    /\ ~opts.key
    /\ ClosedNone(Append(skipped,
           <<base, "UTC fallback aktiv, aber CoinGecko Key fehlt">>))
    /\ AfterChain
    /\ UNCHANGED errors

\* elif not coin_id
UtcNoCoinId ==
    /\ spc = "after"
    /\ UtcTaken
    /\ opts.key
    /\ coin_id = ""
    /\ ClosedNone(Append(skipped,
           <<base, "UTC fallback moeglich, aber coingecko_id fehlt">>))
    /\ AfterChain
    /\ UNCHANGED errors

\* rows when CoinGecko answers in full
UtcRows == cg_ohlc_utc_daily(TicksOf(History, HistLen), ScanClock)

\* rows = cg_ohlc_utc_daily_cached(...); if rows and len(rows) >= 12
UtcSeries ==
    /\ spc = "after"
    /\ UtcTaken
    /\ opts.key
    /\ coin_id # ""
    /\ Len(UtcRows) > 0
    /\ Len(UtcRows) >= MinRows
    /\ closed' = UtcRows
    /\ exchange_used' = "coingecko"
    /\ pair_used' = coin_id
    /\ data_source' = "UTC"
    /\ spc' = "calc"
    /\ AfterChain
    /\ UNCHANGED <<skipped, errors>>

\* else: skipped.append(f"{base}: UTC no data"): CoinGecko has no ticks,
\* or those of a day too few
UtcNoData ==
    /\ spc = "after"
    /\ UtcTaken
    /\ opts.key
    /\ coin_id # ""
    /\ \E ticks \in {<<>>, TicksOf(History, MinRows - 1)} :
         Len(cg_ohlc_utc_daily(ticks, ScanClock)) < MinRows
    /\ ClosedNone(Append(skipped, <<base, "UTC no data">>))
    /\ AfterChain
    /\ UNCHANGED errors

\* cg_ohlc_utc_daily_cached raises: errors.append(f"{base}: UTC error ...")
UtcRaises ==
    /\ spc = "after"
    /\ UtcTaken
    /\ opts.key
    /\ coin_id # ""
    /\ \E e \in UtcFailures :
         errors' = Append(errors, UtcErrorEntry(base, e))
    /\ ClosedNone(skipped)
    /\ AfterChain

\* What lines 745-792 leave alone
ItemDone ==
    /\ spc' = "next"
    /\ UNCHANGED <<opts, scan_list, world, item_no, ex_pos, coin_id, closed,
                   exchange_used, pair_used, data_source, last_reason,
                   tried, notScan>>

\* the try block of lines 745-788 with show_row true
CalcRow ==
    /\ spc = "calc"
    /\ ShowRow(opts, closed)
    /\ results' = Append(results,
                         ResultRow(base, opts, closed, exchange_used,
                                   pair_used, data_source, coin_id))
    /\ ItemDone
    /\ UNCHANGED <<skipped, errors, iter>>

\* the try block left by the in-range 'continue', or with show_row false
CalcNoRow ==
    /\ spc = "calc"
    /\ ~ShowRow(opts, closed)
    /\ ItemDone
    /\ UNCHANGED <<results, skipped, errors, iter>>

\* the try block raises: errors.append(f"{base}: calc error ...")
CalcRaises ==
    /\ spc = "calc"
    /\ errors' = Append(errors, CalcErrorEntry(base, CalcFailure))
    /\ iter' = [iter EXCEPT !.raised = TRUE]
    /\ ItemDone
    /\ UNCHANGED <<results, skipped>>

ScanNext ==
    \/ NextItem
    \/ ScanEnd
    \/ ProvNotSupported
    \/ ProvRaises
    \/ ProvNotListed
    \/ ProvNoData
    \/ ProvSeries
    \/ ChainEnd
    \/ NoFallback
    \/ UtcNoKey
    \/ UtcNoCoinId
    \/ UtcSeries
    \/ UtcNoData
    \/ UtcRaises
    \/ CalcRow
    \/ CalcNoRow
    \/ CalcRaises

SpecScan == ScanInit /\ [][ScanNext]_vars

\* The loop body has run to its end for item item_no
ItemOver == spc \in {"next", "done"} /\ item_no >= 1

\* What the item in progress has appended so far
NewRows == SubSeq(results, iter.res0 + 1, Len(results))

NewSkipped == SubSeq(skipped, iter.skip0 + 1, Len(skipped))

NewErrors == SubSeq(errors, iter.err0 + 1, Len(errors))

\* Some NR pattern of the requested windows holds at the latest candle
RequestedNR ==
    LET n == Len(closed)
    IN  \/ opts.want_nr10 /\ RawNR(W10, n)
        \/ opts.want_nr7 /\ RawNR(W7, n) /\ ~RawNR(W10, n)
        \/ opts.want_nr4 /\ RawNR(W4, n) /\ ~RawNR(W7, n) /\ ~RawNR(W10, n)

\* A setup candle: an NR candle of any window
IsSetup(n) == RawNR(W4, n) \/ RawNR(W7, n) \/ RawNR(W10, n)

\* The last close lies within [setupLow, setupHigh] of the latest setup
InRangeNow ==
    \E n \in 1..Len(closed) :
        /\ IsSetup(n)
        /\ \A k \in (n + 1)..Len(closed) : ~IsSetup(k)
        /\ closed[n].low <= closed[Len(closed)].close
        /\ closed[Len(closed)].close <= closed[n].high

\* A series was obtained for the item and its evaluation did not raise
Evaluated == ItemOver /\ closed # None /\ ~iter.raised

\* C5 as stated: a symbol with a series gets exactly one row iff some
\* requested NR flag or the in-range flag is true, and no row otherwise.
C5_AsStated ==
    Evaluated =>
        Len(NewRows) = IF RequestedNR \/ InRangeNow THEN 1 ELSE 0

\* C5, amended: a symbol with a series gets exactly one row, its own, iff
\* the in-range flag is true when show_inrange_only is on, and iff some
\* requested NR flag is true at the latest candle when it is off;
\* otherwise it gets no row.
C5_RowIffShown ==
    Evaluated =>
        IF (IF opts.show_inrange_only THEN InRangeNow ELSE RequestedNR)
        THEN /\ Len(NewRows) = 1
             /\ NewRows[1].symbol = base
             /\ NewRows[1].in_nr_range_now = InRangeNow
             /\ (NewRows[1].NR10 \/ NewRows[1].NR7 \/ NewRows[1].NR4)
                  = RequestedNR
        ELSE Len(NewRows) = 0

\* an item evaluated with show_inrange_only off whose close is in range
\* and whose latest candle has no requested NR flag: no row
C5_Witness ==
    /\ Evaluated
    /\ ~opts.show_inrange_only
    /\ InRangeNow
    /\ ~RequestedNR
    /\ Len(NewRows) = 0
    /\ Len(results) > 0

\* The item ended without a row because of a failure: no series, or the
\* evaluation raised
ItemFailed == ItemOver /\ (closed = None \/ iter.raised)

\* The entries name the item's symbol
AllNameBase(entries) == \A k \in 1..Len(entries) : entries[k][1] = base

C7_Safe ==
    /\ spc # "aborted"
    /\ ItemFailed =>
          /\ Len(NewSkipped) + Len(NewErrors) >= 1
          /\ AllNameBase(NewSkipped)
          /\ AllNameBase(NewErrors)
          /\ Len(NewRows) = 0
    /\ spc = "done" => item_no = Len(scan_list)

\* How far the loop is: the items begun, and the place in the body of the
\* one in progress
Progress ==
    LET n == Len(opts.provider_chain)
        place == CASE spc = "chain" -> ex_pos
                   [] spc = "after" -> n + 2
                   [] spc = "calc"  -> n + 3
                   [] spc = "next"  -> IF item_no = 0 THEN 0 ELSE n + 4
                   [] spc = "done"  -> n + 5
                   [] OTHER -> 0
    IN  item_no * (n + 5) + place

UnlistedEverywhere ==
    ItemOver /\ iter.unlisted /\ Len(tried) = Len(opts.provider_chain)

\* C8 as stated: a symbol no provider lists gets an entry in skipped and
\* no row, whatever the options.
C8_AsStated ==
    UnlistedEverywhere => Len(NewSkipped) >= 1 /\ Len(NewRows) = 0

\* C8, amended: a symbol no provider lists gets an entry in skipped, the
\* last of them with the last provider's "symbol not listed", and no row,
\* unless the UTC fallback returned a series for it: then it has no entry
\* in skipped.
C8_UnlistedSkipped ==
    UnlistedEverywhere =>
        IF data_source = "UTC" THEN Len(NewSkipped) = 0
        ELSE /\ Len(NewSkipped) >= 1
             /\ NewSkipped[Len(NewSkipped)]
                  = <<base, opts.provider_chain[Len(opts.provider_chain)],
                      "symbol not listed">>
             /\ AllNameBase(NewSkipped)
             /\ Len(NewRows) = 0

\* a symbol none of the six providers lists, with the UTC fallback tried
\* and without data
C8_Witness ==
    /\ UnlistedEverywhere
    /\ Len(tried) = Len(PROVIDER_CHAIN)
    /\ data_source # "UTC"
    /\ Len(NewSkipped) = 2
    /\ NewSkipped[1][2] = "UTC no data"

\* C9: the providers are tried in the chain's order, each at most once and
\* only after every earlier one failed; a series ends the chain, and the
\* series, exchange and pair kept are those of the provider that returned
\* it.
C9_ChainInOrder ==
    item_no >= 1 =>
        /\ Len(tried) <= Len(opts.provider_chain)
        /\ \A n \in 1..Len(tried) :
              /\ tried[n].ex_id = opts.provider_chain[n]
              /\ n < Len(tried) => ~tried[n].ok
        /\ spc \in {"after", "calc", "next", "done"} =>
              \/ Len(tried) = Len(opts.provider_chain)
              \/ tried[Len(tried)].ok
        /\ (iter.got # None) = (\E n \in 1..Len(tried) : tried[n].ok)
        /\ iter.got # None =>
              /\ tried[Len(tried)].ok
              /\ iter.got.ex_id = tried[Len(tried)].ex_id
              /\ exchange_used = iter.got.ex_id
              /\ pair_used = iter.got.sym
              /\ closed = iter.got.rows
              /\ data_source = "Futures"
        /\ iter.got = None => exchange_used \in {"", "coingecko"}

\* the fifth provider returned the series after four that failed in at
\* least three ways, and the row names it
C9_Witness ==
    /\ ItemOver
    /\ Len(tried) = 5
    /\ tried[5].ok
    /\ Len(NewRows) = 1
    /\ NewRows[1].exchange_used = PROVIDER_CHAIN[5]
    /\ last_reason # None
    /\ last_reason[2] \notin {"symbol not listed", "not supported"}

\* The text holds the key, whole
HasKey(text) ==
    \E i \in 1..(Len(text) - KeyLen + 1) : SubSeq(text, i, i + KeyLen - 1) = Key

\* C14: no text in skipped or in errors holds the value of the CoinGecko
\* API key, whatever message the exceptions of the provider calls carry.
C14_AsStated ==
    /\ \A k \in 1..Len(skipped) : ~HasKey(skipped[k])
    /\ \A k \in 1..Len(errors) : ~HasKey(errors[k])

\* What is kept out: no text in skipped holds the key, and a text in errors
\* holds at most the first MsgCut characters of the exception's message,
\* with the key if it lies among them, which only a UTC error's does.
C14_KeyOnlyCut ==
    /\ \A k \in 1..Len(skipped) : ~HasKey(skipped[k])
    /\ \A k \in 1..Len(errors) :
          /\ Len(errors[k]) <= 3 + MsgCut
          /\ HasKey(errors[k]) => errors[k][2] = "UTC error"

\* the UTC fallback of an item ended with the HTTPError of a refused
\* request, whose message quotes the URL, and the key in it is in errors
C14_Witness ==
    /\ ItemOver
    /\ Len(NewErrors) = 1
    /\ NewErrors[1][2] = "UTC error"
    /\ NewErrors[1][3] = "HTTPError"
    /\ HasKey(NewErrors[1])
    /\ opts.key

\* The diagnostic entries the item in progress has appended so far
Diagnostics == Len(NewSkipped) + Len(NewErrors)

\* C15: an item of the scan list appends at most one entry to skipped and
\* errors together, and none when it has a row; at the end of the scan
\* neither list is longer than the scan list.
C15_AsStated ==
    /\ item_no >= 1 =>
          /\ Diagnostics <= 1
          /\ Len(NewRows) >= 1 => Diagnostics = 0
    /\ spc = "done" =>
          /\ Len(skipped) <= Len(scan_list)
          /\ Len(errors) <= Len(scan_list)

\* The item is left without a series although the UTC fallback is on at
\* the daily timeframe
FallbackFailed ==
    closed = None /\ opts.allow_utc_fallback /\ opts.tf = "1D"

\* C15, amended: an item appends at most one entry, except that an item
\* left without a series after the UTC fallback was tried appends two, the
\* fallback's own (in skipped or in errors) and then the final one in
\* skipped; an item with a row appends none; errors is never longer than
\* the number of items scanned, skipped never longer than twice that.
C15_AtMostTwo ==
    /\ item_no >= 1 =>
          /\ ~FallbackFailed => Diagnostics <= 1
          /\ (ItemOver /\ FallbackFailed) =>
                /\ Diagnostics = 2
                /\ Len(NewErrors) <= 1
                /\ skipped[Len(skipped)] = SkippedEntry(base, last_reason)
          /\ Diagnostics <= 2
          /\ Len(NewRows) >= 1 => Diagnostics = 0
    /\ Len(errors) <= item_no
    /\ Len(skipped) <= 2 * item_no

\* the scan is over and every item of it has two entries: one whose
\* fallback raised, one whose fallback found too little
C15_Witness ==
    /\ spc = "done"
    /\ Len(skipped) + Len(errors) = 2 * Len(scan_list)
    /\ Len(errors) = 1
    /\ Len(NewSkipped) = 2

====
